---- MODULE Spec2Model ----
(***************************************************************************)
(* Model of src/Lab7.c: streamed vector addition.  A single host thread    *)
(* creates N_STREAMS CUDA streams and 3 * N_STREAMS device buffers, walks  *)
(* the input in chunks of segmentSize * N_STREAMS elements and, per chunk, *)
(* enqueues on every stream two host-to-device copies, one vecAdd kernel   *)
(* and one device-to-host copy.  The device executes the operations of one *)
(* stream in FIFO order and the operations of different streams in any     *)
(* order.  Each host statement (a runtime call together with its check())  *)
(* is one action; each execution of a queued operation is one action.      *)
(*                                                                         *)
(* float values are modelled by integers (the sums used here are exactly   *)
(* representable); arrays are functions over the C index range 0..n-1.     *)
(***************************************************************************)
EXTENDS Integers, Sequences, FiniteSets

\* The source has N_STREAMS = 4 (line 30), segmentSize = 128 (line 90) and
\* BLOCK_SIZE = 128 (line 37).  The model keeps the program's formulas and
\* scales the three sizes down so that every interleaving can be enumerated.
N_STREAMS == 2
segmentSize == 2
BLOCK_SIZE == 2
\* inputLength ranges over 0 .. MaxLen: zero, one, two and three chunks.
MaxLen == 9
\* At most MaxFailures runtime calls fail in one run.
MaxFailures == 1

\* The largest inputLength considered by IntSpec is INT_MAX, the smallest
\* INT_MAX - MaxTail.
MaxTail == 16

\* int is 32 bits wide
INT_MAX == 2147483647
INT_MIN == -INT_MAX - 1

EXIT_SUCCESS == 0
EXIT_FAILURE == 1

Streams == 0 .. (N_STREAMS - 1)
ChunkSize == segmentSize * N_STREAMS
\* Uninitialised memory (malloc, cudaMalloc) holds one of these values; none
\* of them is an input value or a sum.
Indeterminate == {0, 1}
BufferNames == <<"deviceInput1", "deviceInput2", "deviceOutput">>
Buffers == {<<BufferNames[n], t>> : n \in 1..3, t \in Streams}

VARIABLES
  pc,              \* host position: the statement main() executes next
  s,               \* the stream index of the current for (s ...) loop
  step,            \* which runtime call of the current loop body is next
  i,               \* the chunk loop counter (line 101)
  inputLength,
  hostInput1, hostInput2, hostOutput,
  junk,            \* the content of uninitialised memory in this run
  stream,          \* per stream: "none", "created" or "destroyed"
  deviceInput1, deviceInput2, deviceOutput, \* contents; <<>> before cudaMalloc
  mallocs, frees,  \* per device buffer: number of cudaMalloc / cudaFree
  queue,           \* per stream: operations enqueued and not yet executed
  done,            \* operations the device has executed
  chunks,          \* number of chunk-loop iterations entered
  failures,        \* number of runtime calls that failed
  failed,          \* some runtime call has failed
  issuedAfterFailure, \* a device call was made after a failure
  solution,        \* wbSolution's verdict: "none", "correct", "wrong"
  solutionPending, \* operations still queued when wbSolution was called
  exitStatus,      \* -1 while running, else the process exit status
  overflow         \* an int expression of the chunk loop has overflowed

vars == <<pc, s, step, i, inputLength, hostInput1, hostInput2, hostOutput,
          junk, stream, deviceInput1, deviceInput2, deviceOutput, mallocs,
          frees, queue, done, chunks, failures, failed, issuedAfterFailure,
          solution, solutionPending, exitStatus, overflow>>

\* What no statement of main() changes for the lengths of Spec: the inputs,
\* the content of uninitialised memory, and (no int expression comes near
\* INT_MAX there) the overflow flag.
hostVars == <<inputLength, hostInput1, hostInput2, junk, overflow>>

----------------------------------------------------------------------------
\* Pure helpers

min(a, b) == IF a < b THEN a ELSE b
max(a, b) == IF a > b THEN a ELSE b

\* copySize without the clamp at zero
copySizeUnclamped(ii, t) == min(segmentSize, inputLength - ii - t * segmentSize)

\* copySize without the clamp at segmentSize
copySizeUncapped(ii, t) == max(inputLength - ii - t * segmentSize, 0)

\* line 107 (and 123, 133)
copySize(ii, t) == max(min(segmentSize, inputLength - ii - t * segmentSize), 0)

\* line 124
gridDim == (segmentSize - 1) \div BLOCK_SIZE + 1

\* The kernel with <= in place of <
vecAddInclusive(in1, in2, out, len, d) ==
  [idx \in DOMAIN out |->
     IF idx < d * BLOCK_SIZE /\ idx <= len THEN in1[idx] + in2[idx]
                                           ELSE out[idx]]

\* The kernel: worker idx of a grid of d blocks writes out[idx] iff idx < len.
vecAdd(in1, in2, out, len, d) ==
  [idx \in DOMAIN out |->
     IF idx < d * BLOCK_SIZE /\ idx < len THEN in1[idx] + in2[idx]
                                          ELSE out[idx]]

\* A read outside an array yields an indeterminate value.
ReadAt(vec, idx) == IF idx \in DOMAIN vec THEN vec[idx] ELSE junk

\* cudaMemcpy of n elements from src[from ..] to dst[to ..].
Memcpy(dst, to, src, from, n) ==
  [j \in DOMAIN dst |->
     IF j >= to /\ j < to + n THEN ReadAt(src, from + (j - to)) ELSE dst[j]]

Pending == UNION {{queue[t][n] : n \in 1..Len(queue[t])} : t \in Streams}
Issued == Pending \cup done
AllIdle == \A t \in Streams : queue[t] = <<>>

\* The operation with the segment offset i + s in place of i + s*segmentSize
OpDenseOffset(kind, t, ii) ==
  [kind |-> kind, chunk |-> ii \div ChunkSize, buf |-> t, stream |-> t,
   off |-> ii + t, size |-> copySize(ii, t),
   seq |-> Cardinality(Issued)]

\* One asynchronous operation as main() issues it for stream index t in the
\* chunk starting at ii: the buffer triple and the stream it names, the host
\* offset, the element count, and seq, the number of operations issued
\* before it.
Op(kind, t, ii) ==
  [kind |-> kind, chunk |-> ii \div ChunkSize, buf |-> t, stream |-> t,
   off |-> ii + t * segmentSize, size |-> copySize(ii, t),
   seq |-> Cardinality(Issued)]

\* The host elements a transfer reads or writes, and the elements of the
\* device buffers an operation reads or writes.
HostRange(a) ==
  IF a.kind = "KERNEL" THEN {} ELSE {a.off + j : j \in 0 .. (a.size - 1)}
DeviceRange(a) ==
  IF a.kind = "KERNEL"
    THEN {idx \in 0 .. (gridDim * BLOCK_SIZE - 1) : idx < a.size}
    ELSE 0 .. (a.size - 1)

OutputCorrect(out) ==
  \A idx \in 0 .. (inputLength - 1) : out[idx] = hostInput1[idx] + hostInput2[idx]

----------------------------------------------------------------------------
\* The state after lines 69-77.  main() never branches on an element value,
\* so one input with pairwise distinct elements and pairwise distinct sums
\* (all different from the indeterminate values) exposes any misplaced,
\* missing or stale element.
Init ==
  /\ inputLength \in 0 .. MaxLen
  /\ junk \in Indeterminate
  /\ hostInput1 = [idx \in 0 .. (inputLength - 1) |-> 10 + idx]
  /\ hostInput2 = [idx \in 0 .. (inputLength - 1) |-> 100 * (idx + 1)]
  /\ hostOutput = [idx \in 0 .. (inputLength - 1) |-> junk]
  /\ pc = "create" /\ s = 0 /\ step = 0 /\ i = 0
  /\ stream = [t \in Streams |-> "none"]
  /\ deviceInput1 = [t \in Streams |-> <<>>]
  /\ deviceInput2 = [t \in Streams |-> <<>>]
  /\ deviceOutput = [t \in Streams |-> <<>>]
  /\ mallocs = [b \in Buffers |-> 0]
  /\ frees = [b \in Buffers |-> 0]
  /\ queue = [t \in Streams |-> <<>>]
  /\ done = {}
  /\ chunks = 0
  /\ failures = 0 /\ failed = FALSE /\ issuedAfterFailure = FALSE
  /\ solution = "none" /\ solutionPending = 0
  /\ exitStatus = -1
  /\ overflow = FALSE

----------------------------------------------------------------------------
\* Host side: main()

\* Slips of the index expression: the neighbouring stream, the first buffer.
NextStream(t) == (t + 1) % N_STREAMS
FirstBuffer(n, t) == <<BufferNames[1], t>>

\* The arguments the source passes to the runtime calls.
H2DStream(t) == t                              \* stream[s], lines 113, 118
H2DBuffer(t) == t                              \* deviceInput1[s], deviceInput2[s]
KernelStream(t) == t                           \* stream[s], line 125
KernelBuffer(t) == t                           \* device*[s], lines 125-127
D2HStream(t) == t                              \* stream[s], line 138
D2HBuffer(t) == t                              \* deviceOutput[s], line 135
\* Buffers sized for the whole input
MallocSizeWhole == inputLength

MallocSize == segmentSize                      \* elements, lines 93-95
MallocBuffer(n, t) == <<BufferNames[n + 1], t>> \* lines 93-95
FreeBuffer(n, t) == <<BufferNames[n + 1], t>>   \* lines 152-154

CanFail == failures < MaxFailures

\* Bookkeeping of one runtime call that returned ok or an error.
Track(ok) ==
  /\ failures' = IF ok THEN failures ELSE failures + 1
  /\ failed' = (failed \/ ~ok)
  /\ issuedAfterFailure' = (issuedAfterFailure \/ failed)

\* check(err) with err # cudaSuccess: exit(EXIT_FAILURE)
Abort ==
  /\ pc' = "aborted"
  /\ exitStatus' = EXIT_FAILURE

\* The loop header with <= in place of <
LoopTestInclusive(ii) ==
  /\ i' = ii
  /\ IF ii <= inputLength
       THEN pc' = "copyin" /\ chunks' = chunks + 1
       ELSE pc' = "solution" /\ chunks' = chunks

\* The loop header of line 101 evaluated with counter value ii.
LoopTest(ii) ==
  /\ i' = ii
  /\ IF ii < inputLength
       THEN pc' = "copyin" /\ chunks' = chunks + 1
       ELSE pc' = "solution" /\ chunks' = chunks

Enqueue(t, op) ==
  queue' = [queue EXCEPT ![t] = Append(@, [op EXCEPT !.stream = t])]

\* One loop over the streams that issues copy-ins, kernel and copy-out of a
\* stream before it turns to the next stream.
AdvanceDepthFirst(phase, t) ==
  CASE phase = "copyin" -> <<"kernel", t>>
    [] phase = "kernel" -> <<"copyout", t>>
    [] phase = "copyout" ->
         IF t + 1 < N_STREAMS THEN <<"copyin", t + 1>> ELSE <<"loop", 0>>

\* The loop position after the body of `phase` for stream index t: the three
\* inner loops of lines 105, 121 and 131 run one after the other.
Advance(phase, t) ==
  IF t + 1 < N_STREAMS
    THEN <<phase, t + 1>>
    ELSE <<CASE phase = "copyin" -> "kernel"
             [] phase = "kernel" -> "copyout"
             [] phase = "copyout" -> "loop", 0>>

\* cudaMalloc(&buffer[t], size * sizeof(float)): a fresh buffer of `size`
\* elements with indeterminate contents.
Allocate(array, name, b, size) ==
  IF b[1] = name
    THEN [array EXCEPT ![b[2]] = [j \in 0 .. (size - 1) |-> junk]]
    ELSE array

\* lines 82-85
CreateStream ==
  /\ pc = "create"
  /\ \E ok \in BOOLEAN :
       /\ ~ok => CanFail
       /\ Track(ok)
       /\ IF ok
            THEN /\ stream' = [stream EXCEPT ![s] = "created"]
                 /\ IF s + 1 < N_STREAMS
                      THEN s' = s + 1 /\ pc' = "create"
                      ELSE s' = 0 /\ pc' = "malloc"
                 /\ UNCHANGED exitStatus
            ELSE /\ Abort
                 /\ UNCHANGED <<stream, s>>
  /\ UNCHANGED <<step, i, hostVars, hostOutput, deviceInput1, deviceInput2,
                 deviceOutput, mallocs, frees, queue, done, chunks, solution,
                 solutionPending>>

\* lines 91-96, followed by the first evaluation of the loop header (101)
Malloc ==
  /\ pc = "malloc"
  /\ \E ok \in BOOLEAN :
       /\ ~ok => CanFail
       /\ Track(ok)
       /\ IF ok
            THEN /\ mallocs' = [mallocs EXCEPT ![MallocBuffer(step, s)] = @ + 1]
                 /\ deviceInput1' = Allocate(deviceInput1, "deviceInput1",
                                             MallocBuffer(step, s), MallocSize)
                 /\ deviceInput2' = Allocate(deviceInput2, "deviceInput2",
                                             MallocBuffer(step, s), MallocSize)
                 /\ deviceOutput' = Allocate(deviceOutput, "deviceOutput",
                                             MallocBuffer(step, s), MallocSize)
                 /\ UNCHANGED exitStatus
                 /\ IF step < 2
                      THEN step' = step + 1 /\ UNCHANGED <<s, pc, i, chunks>>
                      ELSE /\ step' = 0
                           /\ IF s + 1 < N_STREAMS
                                THEN s' = s + 1 /\ UNCHANGED <<pc, i, chunks>>
                                ELSE s' = 0 /\ LoopTest(0)
            ELSE /\ Abort
                 /\ UNCHANGED <<mallocs, s, step, i, chunks, deviceInput1,
                                deviceInput2, deviceOutput>>
  /\ UNCHANGED <<hostVars, hostOutput, stream, frees, queue, done, solution,
                 solutionPending>>

\* lines 105-119: two asynchronous host-to-device copies per stream
CopyIn ==
  /\ pc = "copyin"
  /\ \E ok \in BOOLEAN :
       /\ ~ok => CanFail
       /\ Track(ok)
       /\ IF ok
            THEN /\ Enqueue(H2DStream(s),
                            [Op(IF step = 0 THEN "H2D1" ELSE "H2D2", s, i)
                               EXCEPT !.buf = H2DBuffer(s)])
                 /\ UNCHANGED exitStatus
                 /\ IF step < 1
                      THEN step' = step + 1 /\ UNCHANGED <<s, pc>>
                      ELSE /\ step' = 0
                           /\ pc' = Advance("copyin", s)[1]
                           /\ s' = Advance("copyin", s)[2]
            ELSE /\ Abort
                 /\ UNCHANGED <<queue, s, step>>
  /\ UNCHANGED <<i, hostVars, hostOutput, stream, deviceInput1, deviceInput2,
                 deviceOutput, mallocs, frees, done, chunks, solution,
                 solutionPending>>

\* lines 121-129: the kernel launch; its error is never read, so a failed
\* launch enqueues nothing and main() goes on.
Launch ==
  /\ pc = "kernel"
  /\ \E ok \in BOOLEAN :
       /\ ~ok => CanFail
       /\ Track(ok)
       /\ IF ok
            THEN Enqueue(KernelStream(s),
                         [Op("KERNEL", s, i) EXCEPT !.buf = KernelBuffer(s)])
            ELSE UNCHANGED queue
  /\ pc' = Advance("kernel", s)[1]
  /\ s' = Advance("kernel", s)[2]
  /\ UNCHANGED <<step, i, hostVars, hostOutput, stream, deviceInput1,
                 deviceInput2, deviceOutput, mallocs, frees, done, chunks,
                 solution, solutionPending, exitStatus>>

\* lines 131-139, followed by i += segmentSize*N_STREAMS and the loop header
CopyOut ==
  /\ pc = "copyout"
  /\ \E ok \in BOOLEAN :
       /\ ~ok => CanFail
       /\ Track(ok)
       /\ IF ok
            THEN /\ Enqueue(D2HStream(s),
                            [Op("D2H", s, i) EXCEPT !.buf = D2HBuffer(s)])
                 /\ UNCHANGED exitStatus
                 /\ IF Advance("copyout", s)[1] = "loop"
                      THEN s' = 0 /\ LoopTest(i + segmentSize * N_STREAMS)
                      ELSE /\ pc' = Advance("copyout", s)[1]
                           /\ s' = Advance("copyout", s)[2]
                           /\ UNCHANGED <<i, chunks>>
            ELSE /\ Abort
                 /\ UNCHANGED <<queue, s, i, chunks>>
  /\ UNCHANGED <<step, hostVars, hostOutput, stream, deviceInput1,
                 deviceInput2, deviceOutput, mallocs, frees, done, solution,
                 solutionPending>>

\* line 145: the host hands hostOutput to wbSolution, which compares it with
\* the expected vector.  Nothing before this call waits for the streams.
Solution ==
  /\ pc = "solution"
  /\ solution' = IF OutputCorrect(hostOutput) THEN "correct" ELSE "wrong"
  /\ solutionPending' = Cardinality(Pending)
  /\ pc' = "free" /\ s' = 0 /\ step' = 0
  /\ UNCHANGED <<i, hostVars, hostOutput, stream, deviceInput1, deviceInput2,
                 deviceOutput, mallocs, frees, queue, done, chunks, failures,
                 failed, issuedAfterFailure, exitStatus>>

\* A release that does not wait for the device (as cudaFreeAsync would)
FreeUnsynchronized == TRUE

\* cudaFree synchronises the whole device before it releases the memory
\* (CUDA runtime behaviour): it proceeds only once every stream has drained.
\* main() itself issues no synchronisation before line 152.
FreeSynchronized == AllIdle

\* lines 150-155
Free ==
  /\ pc = "free"
  /\ FreeSynchronized
  /\ \E ok \in BOOLEAN :
       /\ ~ok => CanFail
       /\ Track(ok)
       /\ IF ok
            THEN /\ frees' = [frees EXCEPT ![FreeBuffer(step, s)] = @ + 1]
                 /\ UNCHANGED exitStatus
                 /\ IF step < 2
                      THEN step' = step + 1 /\ UNCHANGED <<s, pc>>
                      ELSE /\ step' = 0
                           /\ IF s + 1 < N_STREAMS
                                THEN s' = s + 1 /\ pc' = "free"
                                ELSE s' = 0 /\ pc' = "freehost"
            ELSE /\ Abort
                 /\ UNCHANGED <<frees, s, step>>
  /\ UNCHANGED <<i, hostVars, hostOutput, stream, deviceInput1, deviceInput2,
                 deviceOutput, mallocs, queue, done, chunks, solution,
                 solutionPending>>

\* lines 156-160: free the host vectors and return 0
Return ==
  /\ pc = "freehost"
  /\ pc' = "done"
  /\ exitStatus' = EXIT_SUCCESS
  /\ UNCHANGED <<s, step, i, hostVars, hostOutput, stream, deviceInput1,
                 deviceInput2, deviceOutput, mallocs, frees, queue, done,
                 chunks, failures, failed, issuedAfterFailure, solution,
                 solutionPending>>

----------------------------------------------------------------------------
\* Device side: a stream executes the operation at the head of its queue.

Execute(op) ==
  CASE op.kind = "H2D1" ->
         /\ deviceInput1' = [deviceInput1 EXCEPT
                ![op.buf] = Memcpy(@, 0, hostInput1, op.off, op.size)]
         /\ UNCHANGED <<deviceInput2, deviceOutput, hostOutput>>
    [] op.kind = "H2D2" ->
         /\ deviceInput2' = [deviceInput2 EXCEPT
                ![op.buf] = Memcpy(@, 0, hostInput2, op.off, op.size)]
         /\ UNCHANGED <<deviceInput1, deviceOutput, hostOutput>>
    [] op.kind = "KERNEL" ->
         /\ deviceOutput' = [deviceOutput EXCEPT
                ![op.buf] = vecAdd(deviceInput1[op.buf], deviceInput2[op.buf],
                                   @, op.size, gridDim)]
         /\ UNCHANGED <<deviceInput1, deviceInput2, hostOutput>>
    [] op.kind = "D2H" ->
         /\ hostOutput' = Memcpy(hostOutput, op.off, deviceOutput[op.buf], 0,
                                 op.size)
         /\ UNCHANGED <<deviceInput1, deviceInput2, deviceOutput>>

StreamExec(t) ==
  /\ pc # "aborted"
  /\ queue[t] # <<>>
  /\ Execute(Head(queue[t]))
  /\ queue' = [queue EXCEPT ![t] = Tail(@)]
  /\ done' = done \cup {Head(queue[t])}
  /\ UNCHANGED <<pc, s, step, i, hostVars, stream, mallocs, frees, chunks,
                 failures, failed, issuedAfterFailure, solution,
                 solutionPending, exitStatus>>

Device == \E t \in Streams : StreamExec(t)

Next ==
  \/ CreateStream
  \/ Malloc
  \/ CopyIn
  \/ Launch
  \/ CopyOut
  \/ Solution
  \/ Free
  \/ Return
  \/ Device

Spec == Init /\ [][Next]_vars

----------------------------------------------------------------------------
\* The int arithmetic of the chunk loop for inputLength close to INT_MAX.
\* Only the loop counter and the int expressions of lines 101, 107, 123 and
\* 133 are followed; the vectors and the device are left out (empty).

\* a + b and a - b leave the range of int.  (Stated without computing the
\* sum, which need not be representable.)
AddOverflows(a, b) ==
  \/ b > 0 /\ a > INT_MAX - b
  \/ b < 0 /\ a < INT_MIN - b
SubOverflows(a, b) ==
  \/ b < 0 /\ a > INT_MAX + b
  \/ b > 0 /\ a < INT_MIN + b

\* a + b - 2^32 for a + b > INT_MAX: the value a two's-complement build stores.
AddWrap(a, b) == (a - INT_MAX) + (b - INT_MAX) - 2

\* Any iteration of the loop at line 101 within the last two chunks: i takes
\* every multiple of segmentSize*N_STREAMS below inputLength in turn.
IntInit ==
  /\ inputLength \in {INT_MAX - k : k \in 0 .. MaxTail}
  /\ i \in {x \in (inputLength - 2 * ChunkSize) .. (inputLength - 1) :
              x % ChunkSize = 0}
  /\ pc = "copyin" /\ s = 0 /\ step = 0
  /\ junk \in Indeterminate
  /\ hostInput1 = <<>> /\ hostInput2 = <<>> /\ hostOutput = <<>>
  /\ stream = [t \in Streams |-> "created"]
  /\ deviceInput1 = [t \in Streams |-> <<>>]
  /\ deviceInput2 = [t \in Streams |-> <<>>]
  /\ deviceOutput = [t \in Streams |-> <<>>]
  /\ mallocs = [b \in Buffers |-> 1]
  /\ frees = [b \in Buffers |-> 0]
  /\ queue = [t \in Streams |-> <<>>]
  /\ done = {}
  /\ chunks = 0
  /\ failures = 0 /\ failed = FALSE /\ issuedAfterFailure = FALSE
  /\ solution = "none" /\ solutionPending = 0
  /\ exitStatus = -1
  /\ overflow = FALSE

intFrame == <<step, inputLength, hostInput1, hostInput2, hostOutput, junk,
              stream, deviceInput1, deviceInput2, deviceOutput, mallocs,
              frees, queue, done, chunks, failures, failed,
              issuedAfterFailure, solution, solutionPending, exitStatus>>

\* lines 107, 123, 133: inputLength - i - s*segmentSize, evaluated from left
\* to right in int.  (hostInput1 + i + s*segmentSize is pointer arithmetic.)
IntSegment ==
  /\ pc \in {"copyin", "kernel", "copyout"}
  /\ ~overflow
  /\ overflow' = \/ SubOverflows(inputLength, i)
                 \/ /\ ~SubOverflows(inputLength, i)
                    /\ SubOverflows(inputLength - i, s * segmentSize)
  /\ pc' = IF Advance(pc, s)[1] = "loop" THEN "increment" ELSE Advance(pc, s)[1]
  /\ s' = Advance(pc, s)[2]
  /\ UNCHANGED <<i, intFrame>>

\* line 101: i += segmentSize*N_STREAMS, then i < inputLength.  A sum beyond
\* INT_MAX is undefined; the usual build stores the wrapped, negative value
\* and stays in the loop.  What follows an overflow is not followed here.
IntIncrement ==
  /\ pc = "increment"
  /\ ~overflow
  /\ IF AddOverflows(i, segmentSize * N_STREAMS)
       THEN /\ overflow' = TRUE
            /\ i' = AddWrap(i, segmentSize * N_STREAMS)
            /\ pc' = "copyin"
       ELSE /\ overflow' = FALSE
            /\ i' = i + segmentSize * N_STREAMS
            /\ pc' = IF i' < inputLength THEN "copyin" ELSE "solution"
  /\ UNCHANGED <<s, intFrame>>

IntNext == IntSegment \/ IntIncrement

IntSpec == IntInit /\ [][IntNext]_vars

\* The host thread keeps running until it exits, and every stream keeps
\* executing the operations queued on it.
Host ==
  \/ CreateStream \/ Malloc \/ CopyIn \/ Launch \/ CopyOut
  \/ Solution \/ Free \/ Return

FairSpec ==
  /\ Spec
  /\ WF_vars(Host)
  /\ \A t \in Streams : WF_vars(StreamExec(t))

----------------------------------------------------------------------------
\* Vocabulary of the properties

\* main() has left the chunk loop and has not aborted.
LoopDone == pc \in {"solution", "free", "freehost", "done"}

Rank(kind) ==
  CASE kind = "H2D1" -> 1 [] kind = "H2D2" -> 2 [] kind = "KERNEL" -> 3
    [] kind = "D2H" -> 4

SameSegment(a, b) == a.chunk = b.chunk /\ a.buf = b.buf

SegmentOf(a) == <<a.chunk, a.buf>>

RECURSIVE SumSize(_)
SumSize(ops) ==
  IF ops = {} THEN 0
  ELSE LET a == CHOOSE x \in ops : TRUE IN a.size + SumSize(ops \ {a})

\* Segments with an operation issued whose copy-out has not completed.
InFlight ==
  {SegmentOf(a) : a \in Issued} \ {SegmentOf(b) : b \in {d \in done : d.kind = "D2H"}}

\* Segments the device has begun to execute whose copy-out has not completed.
Executing ==
  {SegmentOf(a) : a \in done} \ {SegmentOf(b) : b \in {d \in done : d.kind = "D2H"}}

----------------------------------------------------------------------------
\* C1: once main() has left the chunk loop and every operation issued on
\* every stream has completed, output[idx] = input1[idx] + input2[idx] for
\* every idx in [0, inputLength).
C1_OutputIsSum ==
  (LoopDone /\ AllIdle) => OutputCorrect(hostOutput)

\* The same statement restricted to runs in which no runtime call failed.
OutputIsSumUnlessFailed ==
  (LoopDone /\ AllIdle /\ ~failed) => OutputCorrect(hostOutput)

\* C2: when hostOutput is handed to wbSolution no issued operation is still
\* pending on any stream.
C2_NothingPendingAtSolution ==
  (solution # "none") => (solutionPending = 0)

\* C3: the operations of one segment are enqueued on one stream in the order
\* copy-in, copy-in, kernel, copy-out, and the device executes none of them
\* before an earlier operation of the same segment has completed.
C3_SegmentOrder ==
  /\ \A t \in Streams : \A n \in 1 .. Len(queue[t]) : \A m \in 1 .. (n - 1) :
       SameSegment(queue[t][m], queue[t][n])
          => Rank(queue[t][m].kind) < Rank(queue[t][n].kind)
  /\ LET segments == [t \in Streams |->
                        {SegmentOf(queue[t][n]) : n \in 1 .. Len(queue[t])}]
     IN \A t \in Streams : \A u \in Streams \ {t} :
          segments[t] \cap segments[u] = {}
  /\ LET issued == Issued
         in1 == {SegmentOf(a) : a \in {x \in issued : x.kind = "H2D1"}}
         in2 == {SegmentOf(a) : a \in {x \in issued : x.kind = "H2D2"}}
     IN \A b \in issued :
          b.kind \in {"KERNEL", "D2H"} =>
            SegmentOf(b) \in in1 /\ SegmentOf(b) \in in2
  \* an operation not yet executed is a pending one
  /\ \A b \in done : \A a \in Pending :
       (SameSegment(a, b) /\ Rank(a.kind) < Rank(b.kind)) => a \in done

C3_Witness ==
  \E a, b \in done :
    /\ SameSegment(a, b) /\ a.kind = "KERNEL" /\ b.kind = "D2H" /\ b.size > 0
    /\ ~AllIdle

\* C4: on every stream's buffers, a copy-in of chunk k+1 is executed only
\* after the kernel of chunk k has completed, and the kernel of chunk k+1
\* only after the copy-out of chunk k has completed.
C4_ReuseRaceFree ==
  \* an operation not yet executed is a pending one
  \A b \in done : \A a \in Pending :
    ( /\ a.buf = b.buf
      /\ b.chunk = a.chunk + 1
      /\ \/ a.kind = "KERNEL" /\ b.kind \in {"H2D1", "H2D2"}
         \/ a.kind = "D2H" /\ b.kind = "KERNEL" )
    => a \in done

\* The host is still issuing while the device already reuses a buffer.
C4_Witness ==
  /\ pc \in {"copyin", "kernel", "copyout"}
  /\ \E b \in done : b.chunk >= 1 /\ b.kind = "KERNEL" /\ b.size > 0

\* C5 (as stated): at most N_STREAMS segments are issued and not completed.
C5_InFlightBound ==
  Cardinality(InFlight) <= N_STREAMS

\* C5 (amended): at most N_STREAMS segments are in execution on the device,
\* at most one on each stream's buffers.
C5_ExecutingBound ==
  /\ Cardinality(Executing) <= N_STREAMS
  /\ \A x, y \in Executing : x[2] = y[2] => x = y

C5_Witness ==
  /\ Cardinality(Executing) = N_STREAMS
  /\ Cardinality(InFlight) > N_STREAMS

\* C6: once a device operation has failed the process has exited with
\* EXIT_FAILURE and no device operation was issued after the failure.
C6_FailFast ==
  failed => (exitStatus = EXIT_FAILURE /\ ~issuedAfterFailure)

\* C7: at normal exit each of the 3 * N_STREAMS buffers was allocated once
\* and released once; at no time is a buffer released more often than it
\* was allocated, or more than once.
C7_BufferAccounting ==
  /\ Cardinality(Buffers) = 3 * N_STREAMS
  /\ \A b \in Buffers : mallocs[b] <= 1 /\ frees[b] <= mallocs[b]
  /\ pc = "done" => \A b \in Buffers : mallocs[b] = 1 /\ frees[b] = 1

C7_Witness ==
  pc = "done" /\ inputLength > ChunkSize

\* C8: at normal exit every created stream has been destroyed.
C8_StreamsReleased ==
  pc = "done" => \A t \in Streams : stream[t] = "destroyed"

\* C9: after the chunk loop the copySize values of all segments add up to
\* inputLength (taken from the copy-outs, and likewise from the copy-ins).
C9_SweepSum ==
  LoopDone =>
    LET issued == Issued IN
      /\ SumSize({a \in issued : a.kind = "D2H"}) = inputLength
      /\ SumSize({a \in issued : a.kind = "H2D1"}) = inputLength
      /\ SumSize({a \in issued : a.kind = "H2D2"}) = inputLength

C9_Witness ==
  /\ LoopDone /\ inputLength = ChunkSize + 1
  /\ \E a \in Issued : a.kind = "D2H" /\ a.size = 0

\* C10: the loop runs ceil(inputLength / (segmentSize * N_STREAMS)) chunks;
\* with inputLength = 0 nothing is ever issued; with inputLength =
\* segmentSize * N_STREAMS there is one chunk and every operation issued
\* covers a full segment, one per stream.
C10_ChunkCount ==
  /\ LoopDone => chunks = (inputLength + ChunkSize - 1) \div ChunkSize
  /\ inputLength = 0 => (Issued = {} /\ chunks = 0)
  /\ (inputLength = ChunkSize /\ LoopDone) =>
       /\ chunks = 1
       /\ LET issued == Issued IN
            /\ \A a \in issued : a.size = segmentSize /\ a.chunk = 0
            /\ \A t \in Streams : \E a \in issued : a.kind = "D2H" /\ a.buf = t

C10_Witness ==
  pc = "done" /\ inputLength = ChunkSize /\ chunks = 1 /\ exitStatus = EXIT_SUCCESS

C10_WitnessEmpty ==
  pc = "done" /\ inputLength = 0 /\ exitStatus = EXIT_SUCCESS

\* C11: every operation issued touches only host elements of
\* [0, inputLength) and device elements of [0, segmentSize); when inputLength
\* is one more than a multiple of segmentSize * N_STREAMS, the last chunk
\* gives stream 0 one element and every other stream none, and the empty
\* segments touch no host or device element.
C11_InBounds ==
  LET issued == Issued IN
    /\ \A a \in issued :
         /\ a.size >= 0
         /\ HostRange(a) \subseteq 0 .. (inputLength - 1)
         /\ DeviceRange(a) \subseteq 0 .. (segmentSize - 1)
         /\ DeviceRange(a) \subseteq DOMAIN deviceOutput[a.buf]
    /\ (LoopDone /\ inputLength % ChunkSize = 1) =>
         \A a \in issued :
           a.chunk = chunks - 1 =>
             IF a.buf = 0
               THEN a.size = 1
               ELSE a.size = 0 /\ HostRange(a) = {} /\ DeviceRange(a) = {}

C11_Witness ==
  /\ inputLength = ChunkSize + 1 /\ AllIdle /\ pc = "solution"
  /\ \E a, b \in done :
       /\ a.kind = "D2H" /\ a.chunk = 1 /\ a.buf = 0 /\ a.size = 1
       /\ b.kind = "D2H" /\ b.chunk = 1 /\ b.buf = 1 /\ b.size = 0

\* C12: for fixed inputs every run ends with the same output vector.  The
\* inputs are fixed by inputLength and the run in which no call fails ends
\* with the element-wise sums, so all runs agree exactly if every run that
\* reaches return 0 ends with that vector.
C12_OutputDetermined ==
  pc = "done" =>
    hostOutput = [idx \in 0 .. (inputLength - 1) |->
                    hostInput1[idx] + hostInput2[idx]]

\* The first half of C13 alone: a run in which no call fails reaches
\* return 0.
CompletesUnlessFailed ==
  ([]~failed) => <>(pc = "done")

\* C13: a run in which no call fails reaches return 0 (the loop ends and
\* every issued operation completes); a run in which a call fails has
\* aborted at that failure.
C13_CompletesOrAborts ==
  /\ ([]~failed) => <>(pc = "done" /\ AllIdle)
  /\ [](failed => pc = "aborted")

\* Stream t executes a kernel in this step.
KernelStep(t) ==
  /\ queue[t] # <<>>
  /\ Head(queue[t]).kind = "KERNEL"
  /\ queue'[t] = Tail(queue[t])

\* C14: a kernel executed with length len writes in1[idx] + in2[idx] to
\* out[idx] for every idx < len and leaves out[idx] unchanged for idx >= len,
\* and changes nothing else; the grid has at least segmentSize workers, so
\* no idx < len is left out.
C14_KernelFrame ==
  [][\A t \in Streams :
       KernelStep(t) =>
         LET op == Head(queue[t])
             b == op.buf
         IN /\ gridDim * BLOCK_SIZE >= segmentSize
            /\ op.size <= gridDim * BLOCK_SIZE
            /\ \A idx \in DOMAIN deviceOutput[b] :
                 deviceOutput'[b][idx] =
                   IF idx < op.size
                     THEN deviceInput1[b][idx] + deviceInput2[b][idx]
                     ELSE deviceOutput[b][idx]
            /\ \A u \in Streams \ {b} : deviceOutput'[u] = deviceOutput[u]
            /\ UNCHANGED <<deviceInput1, deviceInput2, hostOutput>>]_vars

\* A kernel with 0 < len < segmentSize has run: out[0] is a sum, out[1] is
\* still the indeterminate value.
C14_Witness ==
  \E a \in done :
    /\ a.kind = "KERNEL" /\ a.size = 1
    /\ deviceOutput[a.buf][0] = hostInput1[a.off] + hostInput2[a.off]
    /\ deviceOutput[a.buf][1] = junk
    /\ inputLength = 1

\* C15: every operation issued on stream t names only the buffer triple t,
\* so no buffer is touched by operations of two different streams.
C15_StreamOwnsBuffers ==
  LET issued == Issued IN
    /\ \A t \in Streams : \A n \in 1 .. Len(queue[t]) : queue[t][n].stream = t
    /\ \A a \in issued : a.buf = a.stream
    /\ \A b \in Streams :
         Cardinality({a.stream : a \in {x \in issued : x.buf = b}}) <= 1

C15_Witness ==
  \E a, b \in done :
    /\ a.stream # b.stream /\ a.size > 0 /\ b.size > 0
    /\ a.kind = "D2H" /\ b.kind = "KERNEL"
    /\ ~AllIdle

Phase(kind) ==
  CASE kind = "H2D1" -> 1 [] kind = "H2D2" -> 1 [] kind = "KERNEL" -> 2
    [] kind = "D2H" -> 3

\* C16: the host issues, chunk by chunk, first the copy-ins of all streams,
\* then the kernel launches of all streams, then the copy-outs of all
\* streams: an operation of an earlier chunk, or of an earlier phase of the
\* same chunk, is issued first; when a kernel is launched all copy-ins of
\* its chunk have been issued; when a copy-out is issued the launch of every
\* stream has been made (a failed launch enqueues nothing); when an
\* operation of chunk k+1 is issued all copy-outs of chunk k have been.
C16_IssueOrder ==
  LET issued == Issued IN
    /\ \A a, b \in issued :
         \/ a.seq < b.seq
         \/ ~(\/ a.chunk < b.chunk
              \/ a.chunk = b.chunk /\ Phase(a.kind) < Phase(b.kind))
    /\ \A c \in {b.chunk : b \in {x \in issued : x.kind = "KERNEL"}} :
         \A t \in Streams : \A k \in {"H2D1", "H2D2"} :
           \E a \in issued : a.chunk = c /\ a.buf = t /\ a.kind = k
    /\ \A c \in {b.chunk : b \in {x \in issued : x.kind = "D2H"}} :
         Cardinality({a \in issued : a.chunk = c /\ a.kind = "KERNEL"})
            + failures >= N_STREAMS
    /\ \A c \in {b.chunk : b \in issued} \ {0} :
         \A t \in Streams :
           \E a \in issued : a.chunk = c - 1 /\ a.buf = t /\ a.kind = "D2H"

C16_Witness ==
  /\ pc = "solution" /\ chunks >= 2 /\ ~failed
  /\ Cardinality(Pending) = 4 * N_STREAMS * chunks

BufferContents(b) ==
  CASE b[1] = "deviceInput1" -> deviceInput1[b[2]]
    [] b[1] = "deviceInput2" -> deviceInput2[b[2]]
    [] b[1] = "deviceOutput" -> deviceOutput[b[2]]

\* C17: when the first transfer or kernel is issued, and all through the
\* chunk loop, all N_STREAMS streams exist and each of the 3 * N_STREAMS
\* buffers has been allocated exactly once; an allocated buffer holds exactly
\* segmentSize elements whatever inputLength is.
C17_SetupBeforePipeline ==
  /\ (Issued # {} \/ pc \in {"copyin", "kernel", "copyout", "solution"}) =>
       /\ \A t \in Streams : stream[t] = "created"
       /\ \A b \in Buffers : mallocs[b] = 1
  /\ \A b \in Buffers :
       IF mallocs[b] = 0
         THEN DOMAIN BufferContents(b) = {}
         ELSE DOMAIN BufferContents(b) = 0 .. (segmentSize - 1)

C17_Witness ==
  /\ pc = "copyin" /\ chunks = 2 /\ inputLength > ChunkSize
  /\ Cardinality(Pending) = 4 * N_STREAMS

\* C18: the host ranges [off, off + copySize) of the copy-outs of distinct
\* segments are pairwise disjoint, and once the loop is left every index of
\* [0, inputLength) lies in the range of exactly one copy-out.
C18_DisjointOutputRanges ==
  LET outs == {a \in Issued : a.kind = "D2H"} IN
    /\ \A a, b \in outs :
         SegmentOf(a) # SegmentOf(b) => HostRange(a) \cap HostRange(b) = {}
    /\ LoopDone =>
         \A idx \in 0 .. (inputLength - 1) :
           Cardinality({a \in outs : idx \in HostRange(a)}) = 1

\* Copy-outs of two streams are both next in their queues.
C18_Witness ==
  /\ \A t \in Streams :
       /\ queue[t] # <<>>
       /\ Head(queue[t]).kind = "D2H" /\ Head(queue[t]).size > 0
  /\ pc = "solution" /\ chunks >= 2

\* Operation a reads or writes device buffer b.
Touches(a, b) ==
  /\ a.buf = b[2]
  /\ \/ a.kind = "KERNEL"
     \/ a.kind = "H2D1" /\ b[1] = "deviceInput1"
     \/ a.kind = "H2D2" /\ b[1] = "deviceInput2"
     \/ a.kind = "D2H" /\ b[1] = "deviceOutput"

C20_NoIntOverflow ==
  ~overflow /\ i >= 0

====
